---- MODULE Spec2Model ----
(***************************************************************************)
(* Elitemoney Pro Manager API (src/main.py): the aggregation helpers       *)
(* compute_cash_flow and compute_social_balances, the summary dispatcher   *)
(* workspace_summary, and the two pseudo-AI endpoints receipt_scan and     *)
(* financial_advisor.                                                      *)
(*                                                                         *)
(* Numbers.  Amounts are integers.  A share is a number of tenths (6 is    *)
(* the share 0.6).  A balance is kept in units of 1/Scale, so that         *)
(* amount / len(beneficiaries) and amount * share are exact: the model     *)
(* computes in exact arithmetic what the code computes in binary floating  *)
(* point, and every equality about balances below is an equality up to     *)
(* floating-point rounding in the code.                                    *)
(*                                                                         *)
(* Records.  A transaction is a dict; t.get(k) of a missing key is None.   *)
(* A string field that is missing holds None_; a numeric or list field is  *)
(* a sequence of length 0 (missing) or 1 (present).                        *)
(***************************************************************************)
EXTENDS Integers, Sequences, FiniteSets, TLC

VARIABLES
    pc,        \* where the running call is: "idle" before it, then per call
    balances,  \* compute_social_balances: the map being accumulated
    cur,       \* compute_social_balances: the record of the last iteration
    n,         \* compute_social_balances: records consumed so far
    args,      \* the inputs of the call that ran (arguments, environment)
    result     \* what the call returned or raised, and the I/O it did

vars == <<pc, balances, cur, n, args, result>>

\* ---------------------------------------------------------------- bounds
MaxTxns == 2
MaxBen == 2
MaxCash == 3
MaxFetched == 2

\* ------------------------------------------------------------ dict access
None_ == "<None>"
Missing == <<>>
Some(v) == <<v>>
\* d.get(k, default) for a field held as a 0/1-length sequence
Get(field, default) == IF field = Missing THEN default ELSE field[1]

\* Units of one currency unit in a balance; divisible by every list length
\* the model draws and by 10 (tenths).
Scale == 2 * 2 * 3 * 5
Tenth == Scale \div 10

\* ------------------------------------------------------------ input sets
UserIds == {"P", "A"}
Payers == {None_, "", "P", "B"}
Types == {"social", "home"}
Amounts == {Missing, Some(-10), Some(0), Some(10)}
SplitMethods == {None_, "equal", "percentage"}
Shares == {Missing, Some(4), Some(6)}
Beneficiary == [user_id : UserIds, share : Shares]
BenLists == UNION {[1..k -> Beneficiary] : k \in 0..MaxBen}
Beneficiaries == {Missing} \cup {Some(l) : l \in BenLists}
SocialTxns ==
    [type : Types, payer_id : Payers, amount : Amounts,
     split_method : SplitMethods, beneficiaries : Beneficiaries]
NoTxn == [type |-> None_]

\* ------------------------------------------------- compute_social_balances
\* balances.get(uid, 0.0)
BalGet(b, uid) == IF uid \in DOMAIN b THEN b[uid] ELSE 0
\* balances[uid] = v
BalSet(b, uid, v) ==
    [u \in (DOMAIN b) \cup {uid} |-> IF u = uid THEN v ELSE b[u]]
EmptyBalances == [u \in {} |-> 0]

\* float(t.get("amount", 0)), in currency units
AmountOf(t) == Get(t.amount, 0)
\* t.get("beneficiaries") or []
BensOf(t) == Get(t.beneficiaries, <<>>)

\* variant: the amount test written "< 0", so that a zero amount is processed
Skipped_StrictAmount(t) ==
    \/ t.type # "social"
    \/ t.payer_id = None_ \/ t.payer_id = ""
    \/ AmountOf(t) < 0
    \/ BensOf(t) = <<>>

\* the truth of the guard of line 72 (and of line 67): the record is skipped
Skipped(t) ==
    \/ t.type # "social"
    \/ t.payer_id = None_ \/ t.payer_id = ""
    \/ AmountOf(t) <= 0
    \/ BensOf(t) = <<>>

\* variant: the share read as a percentage (60 for 60%), amount * share / 100
ShareAmt_Percent(amount, b) == (amount * Get(b.share, 0) * Tenth) \div 100

\* amount * float(b.get("share", 0)), in balance units
ShareAmt(amount, b) == amount * Get(b.share, 0) * Tenth
\* amount / len(beneficiaries), in balance units
PerHead(amount, bens) == (amount * Scale) \div Len(bens)

\* the for loop of lines 77-81: beneficiaries j..Len debited in list order
RECURSIVE DebitShares(_, _, _, _)
DebitShares(b, amount, bens, j) ==
    IF j > Len(bens) THEN b
    ELSE DebitShares(
             BalSet(b, bens[j].user_id,
                    BalGet(b, bens[j].user_id) - ShareAmt(amount, bens[j])),
             amount, bens, j + 1)

\* the for loop of lines 85-87
RECURSIVE DebitEqual(_, _, _, _)
DebitEqual(b, per_head, bens, j) ==
    IF j > Len(bens) THEN b
    ELSE DebitEqual(
             BalSet(b, bens[j].user_id, BalGet(b, bens[j].user_id) - per_head),
             per_head, bens, j + 1)

\* variant: balances[payer] = 0.0, which forgets what the payer had
InitPayer_Reset(b, payer) == BalSet(b, payer, 0)

\* balances[payer] = balances.get(payer, 0.0)
InitPayer(b, payer) == BalSet(b, payer, BalGet(b, payer))

\* variant: balances[payer] = amount, an assignment instead of an increment
CreditPayer_Assign(b, payer, amount) == BalSet(b, payer, amount * Scale)

\* balances[payer] += amount
CreditPayer(b, payer, amount) == BalSet(b, payer, b[payer] + amount * Scale)

\* one iteration of the loop of line 66 on record t
social_step(b, t) ==
    IF Skipped(t) THEN b
    ELSE LET payer == t.payer_id
             amount == AmountOf(t)
             bens == BensOf(t)
             b0 == InitPayer(b, payer)
         IN  IF t.split_method = "percentage"
             THEN CreditPayer(DebitShares(b0, amount, bens, 1), payer, amount)
             ELSE CreditPayer(
                      DebitEqual(b0, PerHead(amount, bens), bens, 1),
                      payer, amount)

\* compute_social_balances(transactions): the loop from record i on
RECURSIVE SocialFrom(_, _, _)
SocialFrom(b, txns, i) ==
    IF i > Len(txns) THEN b ELSE SocialFrom(social_step(b, txns[i]), txns, i + 1)

compute_social_balances(txns) == SocialFrom(EmptyBalances, txns, 1)

\* ------------------------------------------- the loop as a state machine
NoArgs == [call |-> "none"]
NoResult == [kind |-> "none"]

Init ==
    /\ pc = "idle"
    /\ balances = EmptyBalances
    /\ cur = NoTxn
    /\ n = 0
    /\ args = NoArgs
    /\ result = NoResult

\* line 65: balances = {}
EnterSocial ==
    /\ pc = "idle"
    /\ balances' = EmptyBalances
    /\ pc' = "loop"
    /\ UNCHANGED <<cur, n, args, result>>

\* the loop takes the next record t of the input and runs its body
LoopBody ==
    /\ pc = "loop"
    /\ n < MaxTxns
    /\ \E t \in SocialTxns :
           /\ balances' = social_step(balances, t)
           /\ cur' = t
    /\ n' = n + 1
    /\ pc' = "applied"
    /\ UNCHANGED <<args, result>>

\* back to the loop header
NextRecord ==
    /\ pc = "applied"
    /\ pc' = "loop"
    /\ cur' = NoTxn
    /\ UNCHANGED <<balances, n, args, result>>

\* the input is exhausted: return balances
ReturnBalances ==
    /\ pc = "loop"
    /\ pc' = "returned"
    /\ UNCHANGED <<balances, cur, n, args, result>>

NextBal ==
    \/ EnterSocial
    \/ LoopBody
    \/ NextRecord
    \/ ReturnBalances

SpecBal == Init /\ [][NextBal]_vars

\* ------------------------------------------------------- compute_cash_flow
Directions == {None_, "income", "expense", "transfer"}
CashAmounts == {Missing, Some(-5), Some(5), Some(20)}
CashTxns == [direction : Directions, amount : CashAmounts]
CashSeqs == UNION {[1..k -> CashTxns] : k \in 0..MaxCash}

\* sum(t.get("amount", 0) for t in transactions if t.get("direction") == dir),
\* over the records from index i on
RECURSIVE SumDirection(_, _, _)
SumDirection(txns, dir, i) ==
    IF i > Len(txns) THEN 0
    ELSE (IF txns[i].direction = dir THEN Get(txns[i].amount, 0) ELSE 0)
         + SumDirection(txns, dir, i + 1)

\* variant: every record that is not an income counts as an expense
compute_cash_flow_ElseExpense(txns) ==
    LET income == SumDirection(txns, "income", 1)
        expense == SumDirection(txns, "expense", 1)
                   + SumDirection(txns, "transfer", 1)
                   + SumDirection(txns, None_, 1)
    IN  [income |-> income, expense |-> expense, net |-> income - expense]

compute_cash_flow(txns) ==
    LET income == SumDirection(txns, "income", 1)
        expense == SumDirection(txns, "expense", 1)
    IN  [income |-> income, expense |-> expense, net |-> income - expense]

\* a caller passes a list to compute_cash_flow
CallCashFlow ==
    /\ pc = "idle"
    /\ \E txns \in CashSeqs :
           /\ args' = [call |-> "compute_cash_flow", txns |-> txns]
           /\ result' = [kind |-> "return", value |-> compute_cash_flow(txns)]
    /\ pc' = "cash_done"
    /\ UNCHANGED <<balances, cur, n>>

NextCash == CallCashFlow

SpecCash == Init /\ [][NextCash]_vars

\* ------------------------------------------------------- workspace_summary
\* str.lower() on the strings the model draws
Lower(s) ==
    CASE s = "Company" -> "company"
      [] s = "SOCIAL" -> "social"
      [] s = "Home" -> "home"
      [] s = "Budget" -> "budget"
      [] s = "TRUE" -> "true"
      [] s = "True" -> "true"
      [] s = "False" -> "false"
      [] OTHER -> s

\* the query parameter: None_ when the request has none
Modes == {None_, "", "company", "Company", "social", "SOCIAL", "home", "Budget"}
StoredTypes == {None_, "company", "home", "social"}
Statuses == {"Pending", "Cleared"}
\* the records the storage fetch returns for the workspace
SummaryTxns ==
    [type : StoredTypes, direction : {None_, "income", "expense"},
     amount : {Some(5), Some(20)}, status : Statuses,
     payer_id : {"P"}, split_method : {"equal"},
     beneficiaries : {Some(<<[user_id |-> "A", share |-> Missing]>>)}]
FetchedSeqs == UNION {[1..k -> SummaryTxns] : k \in 0..MaxFetched}

\* sum(t.get("amount", 0) for t in txns if t.get("status") == "Pending")
RECURSIVE SumPending(_, _)
SumPending(txns, i) ==
    IF i > Len(txns) THEN 0
    ELSE (IF txns[i].status = "Pending" THEN Get(txns[i].amount, 0) ELSE 0)
         + SumPending(txns, i + 1)

\* variant: the mode compared as given, without .lower()
workspace_summary_CaseSensitive(mode, txns) ==
    LET mode1 == IF (mode = None_ \/ mode = "") /\ txns # <<>>
                 THEN txns[1].type ELSE mode
        mode2 == IF mode1 = None_ \/ mode1 = "" THEN "home" ELSE mode1
    IN  IF mode2 = "company"
        THEN [mode |-> "company", cash_flow |-> compute_cash_flow(txns),
              invoices |-> [pending |-> SumPending(txns, 1)]]
        ELSE IF mode2 = "social"
        THEN [mode |-> "social", balances |-> compute_social_balances(txns)]
        ELSE [mode |-> "home", budget |-> compute_cash_flow(txns)]

\* lines 141-154, on the list txns that get_documents returned
workspace_summary(mode, txns) ==
    LET mode1 == IF (mode = None_ \/ mode = "") /\ txns # <<>>
                 THEN txns[1].type ELSE mode
        mode2 == Lower(IF mode1 = None_ \/ mode1 = "" THEN "home" ELSE mode1)
    IN  IF mode2 = "company"
        THEN [mode |-> "company", cash_flow |-> compute_cash_flow(txns),
              invoices |-> [pending |-> SumPending(txns, 1)]]
        ELSE IF mode2 = "social"
        THEN [mode |-> "social", balances |-> compute_social_balances(txns)]
        ELSE [mode |-> "home", budget |-> compute_cash_flow(txns)]

\* GET /api/workspaces/{workspace_id}/summary
CallSummary ==
    /\ pc = "idle"
    /\ \E mode \in Modes, txns \in FetchedSeqs :
           /\ args' = [call |-> "workspace_summary", mode |-> mode, txns |-> txns]
           /\ result' = [kind |-> "return", value |-> workspace_summary(mode, txns)]
    /\ pc' = "summary_done"
    /\ UNCHANGED <<balances, cur, n>>

NextSummary == CallSummary

SpecSummary == Init /\ [][NextSummary]_vars

\* ---------------------------------------------------- pseudo-AI endpoints
\* the value of the environment variable SIMULATE_AI_QUOTA (None_: unset)
EnvValues == {None_, "true", "TRUE", "false", "1"}
\* os.getenv("SIMULATE_AI_QUOTA", "false").lower() == "true"
simulate_quota(env) == Lower(IF env = None_ THEN "false" ELSE env) = "true"

\* what a call into a collaborator (file.read, get_documents) does: it
\* returns, or raises an exception of some class
NoExc == [exc |-> "none", status_code |-> 0]
HTTPException(code) == [exc |-> "HTTPException", status_code |-> code]
IoOutcomes ==
    {NoExc, [exc |-> "Exception", status_code |-> 0],
     [exc |-> "BaseException", status_code |-> 0],
     HTTPException(429), HTTPException(503)}

ParsedAmountCents == 4250
DemoAmountCents == 5000
WindowDays == 30
StatusQuota == 429

Returns(v, io) == [kind |-> "return", value |-> v, io |-> io]
Raises(e, io) == [kind |-> "raise", value |-> e, io |-> io]

ParsedReceipt(today) ==
    [merchant |-> "Parsed Merchant", amount |-> ParsedAmountCents,
     date |-> today, demo |-> FALSE]
DemoReceipt(today, message) ==
    [merchant |-> "Demo Store", amount |-> DemoAmountCents,
     date |-> today, demo |-> TRUE, message |-> message]
QuotaMessage == "Quota exceeded - using demo data"
UnavailableMessage == "AI unavailable - using demo data"

\* the except clauses of lines 174-191, on the exception e the try block raised
ReceiptExcept(e, today, io) ==
    IF e.exc = "HTTPException"
    THEN IF e.status_code = StatusQuota
         THEN Returns(DemoReceipt(today, QuotaMessage), io)
         ELSE Raises(e, io)
    ELSE IF e.exc = "Exception"
    THEN Returns(DemoReceipt(today, UnavailableMessage), io)
    ELSE Raises(e, io)

\* variant: the merchant taken from the uploaded content when there is some
receipt_scan_ReadsContent(env, file, read, today) ==
    IF simulate_quota(env)
    THEN ReceiptExcept(HTTPException(StatusQuota), today, <<>>)
    ELSE IF read # NoExc
    THEN ReceiptExcept(read, today, <<"file.read">>)
    ELSE Returns([ParsedReceipt(today) EXCEPT
                      !.merchant = IF file = "" THEN @ ELSE file],
                 <<"file.read">>)

\* lines 160-191; read: what file.read() does if it is called; io: the
\* collaborator calls made, in order
receipt_scan(env, file, read, today) ==
    IF simulate_quota(env)
    THEN ReceiptExcept(HTTPException(StatusQuota), today, <<>>)
    ELSE IF read # NoExc
    THEN ReceiptExcept(read, today, <<"file.read">>)
    ELSE Returns(ParsedReceipt(today), <<"file.read">>)

Files == {"", "receipt-a", "receipt-b"}
Days == {100, 101}

\* POST /api/ai/receipt-scan
CallReceiptScan ==
    /\ pc = "idle"
    /\ \E env \in EnvValues, file \in Files, read \in IoOutcomes, today \in Days :
           /\ args' = [call |-> "receipt_scan", env |-> env, file |-> file,
                       io |-> read, now |-> today]
           /\ result' = receipt_scan(env, file, read, today)
    /\ pc' = "receipt_done"
    /\ UNCHANGED <<balances, cur, n>>

\* the records the storage fetch returns to the advisor; date is a day number
AdvisorTxns ==
    [direction : {None_, "income", "expense"}, amount : {Some(5), Some(20)},
     date : {Missing, Some(69), Some(70), Some(71)}]
AdvisorSeqs == UNION {[1..k -> AdvisorTxns] : k \in 0..MaxFetched}

\* variant: the window test written "> since"
RECURSIVE Since_Strict(_, _, _)
Since_Strict(txns, since, i) ==
    IF i > Len(txns) THEN <<>>
    ELSE (IF Get(txns[i].date, since) > since THEN <<txns[i]>> ELSE <<>>)
         \o Since_Strict(txns, since, i + 1)

\* [t for t in ... if t.get("date", since) >= since], from index i on
RECURSIVE Since(_, _, _)
Since(txns, since, i) ==
    IF i > Len(txns) THEN <<>>
    ELSE (IF Get(txns[i].date, since) >= since THEN <<txns[i]>> ELSE <<>>)
         \o Since(txns, since, i + 1)

OnTrack == "You're on track. Keep expenses under 80% of income."
CutBack == "Spending exceeds income. Consider cutting non-essentials."
LimitReached == "Limit Reached: Try to save 20% of your income this month."
DemoAdvice == [demo |-> TRUE, advice |-> LimitReached]

\* the except clauses of lines 206-211
AdvisorExcept(e, io) ==
    IF e.exc = "HTTPException"
    THEN IF e.status_code = StatusQuota THEN Returns(DemoAdvice, io)
         ELSE Raises(e, io)
    ELSE IF e.exc = "Exception" THEN Returns(DemoAdvice, io)
    ELSE Raises(e, io)

\* variant: the storage fetch made before the quota flag is looked at
financial_advisor_FetchFirst(env, fetch, fetched, now) ==
    IF fetch # NoExc
    THEN AdvisorExcept(fetch, <<"get_documents">>)
    ELSE IF simulate_quota(env)
    THEN AdvisorExcept(HTTPException(StatusQuota), <<"get_documents">>)
    ELSE LET since == now - WindowDays
             cash == compute_cash_flow(Since(fetched, since, 1))
             insight == IF cash.net >= 0 THEN OnTrack ELSE CutBack
         IN  Returns([demo |-> FALSE, advice |-> insight, net30 |-> cash.net],
                     <<"get_documents">>)

\* lines 195-211; fetch: what get_documents does if it is called, fetched:
\* the list it returns when it returns
financial_advisor(env, fetch, fetched, now) ==
    IF simulate_quota(env)
    THEN AdvisorExcept(HTTPException(StatusQuota), <<>>)
    ELSE IF fetch # NoExc
    THEN AdvisorExcept(fetch, <<"get_documents">>)
    ELSE LET since == now - WindowDays
             cash == compute_cash_flow(Since(fetched, since, 1))
             insight == IF cash.net >= 0 THEN OnTrack ELSE CutBack
         IN  Returns([demo |-> FALSE, advice |-> insight, net30 |-> cash.net],
                     <<"get_documents">>)

\* GET /api/ai/advisor
CallAdvisor ==
    /\ pc = "idle"
    /\ \E env \in EnvValues, fetch \in IoOutcomes, fetched \in AdvisorSeqs,
          now \in Days :
           /\ args' = [call |-> "financial_advisor", env |-> env, io |-> fetch,
                       txns |-> fetched, now |-> now]
           /\ result' = financial_advisor(env, fetch, fetched, now)
    /\ pc' = "advisor_done"
    /\ UNCHANGED <<balances, cur, n>>

NextAI ==
    \/ CallReceiptScan
    \/ CallAdvisor

SpecAI == Init /\ [][NextAI]_vars

\* ------------------------------------------ properties of the social loop
\* the sum of the values b[u], u in S
RECURSIVE SumOver(_, _)
SumOver(b, S) ==
    IF S = {} THEN 0
    ELSE LET u == CHOOSE x \in S : TRUE IN b[u] + SumOver(b, S \ {u})
SumBalances(b) == SumOver(b, DOMAIN b)

\* the users listed in a beneficiaries list
BenUsers(bens) == {bens[j].user_id : j \in DOMAIN bens}
\* the tenths listed for user u in a beneficiaries list (all of u's entries)
RECURSIVE TenthsFrom(_, _, _)
TenthsFrom(bens, u, j) ==
    IF j > Len(bens) THEN 0
    ELSE (IF bens[j].user_id = u /\ bens[j].share # Missing
          THEN bens[j].share[1] ELSE 0) + TenthsFrom(bens, u, j + 1)
TenthsOf(bens, u) == TenthsFrom(bens, u, 1)
RECURSIVE TenthsAllFrom(_, _)
TenthsAllFrom(bens, j) ==
    IF j > Len(bens) THEN 0
    ELSE (IF bens[j].share # Missing THEN bens[j].share[1] ELSE 0)
         + TenthsAllFrom(bens, j + 1)
\* the sum of the shares of a beneficiaries list, in tenths
ShareSum(bens) == TenthsAllFrom(bens, 1)

\* the records the skip rules name, read off the record's fields
IsSocial(t) == t.type = "social"
NoPayer(t) == t.payer_id \in {None_, ""}
NonPositive(t) == t.amount = Missing \/ t.amount[1] <= 0
NoBeneficiaries(t) == t.beneficiaries = Missing \/ t.beneficiaries[1] = <<>>
Malformed(t) ==
    ~IsSocial(t) \/ NoPayer(t) \/ NonPositive(t) \/ NoBeneficiaries(t)
Processed(t) == t # NoTxn /\ ~Malformed(t)
IsPercentage(t) == t.split_method = "percentage"
\* the step just taken ran the loop body on cur'
BodyStep == pc = "loop" /\ pc' = "applied"

\* C1 (as stated): the values of the balance map sum to 0, whatever the input.
C1_ZeroSumAlways == SumBalances(balances) = 0

\* C1 (amended): a skipped record changes nothing, and a processed record
\* with the equal split, or with the percentage split and shares that sum
\* to 1, changes the sum of the balance map by 0; so the map sums to 0 for
\* every input whose processed percentage records have shares summing to 1.
C1_ZeroSumWellFormed ==
    [][BodyStep =>
         /\ Malformed(cur') => balances' = balances
         /\ (Processed(cur') /\ (~IsPercentage(cur')
                                  \/ ShareSum(cur'.beneficiaries[1]) = 10))
                => SumBalances(balances') = SumBalances(balances)]_vars

C1_Witness ==
    /\ pc = "applied" /\ n = 2
    /\ Processed(cur) /\ IsPercentage(cur)
    /\ ShareSum(cur.beneficiaries[1]) = 10
    /\ cur.payer_id \in BenUsers(cur.beneficiaries[1])
    /\ Cardinality(DOMAIN balances) = 3
    /\ \E u \in DOMAIN balances : balances[u] = 10 * Scale
    /\ SumBalances(balances) = 0

\* the case of C3: one record, percentage split, shares summing to 1.2,
\* payer not among the beneficiaries
C3_Case ==
    /\ pc = "applied" /\ n = 1
    /\ Processed(cur) /\ IsPercentage(cur)
    /\ ShareSum(cur.beneficiaries[1]) = 12
    /\ cur.payer_id \notin BenUsers(cur.beneficiaries[1])

C3_PayerAndDebits ==
    /\ DOMAIN balances = {cur.payer_id} \cup BenUsers(cur.beneficiaries[1])
    /\ balances[cur.payer_id] = cur.amount[1] * Scale
    /\ \A u \in BenUsers(cur.beneficiaries[1]) :
           balances[u] = -(cur.amount[1] * TenthsOf(cur.beneficiaries[1], u) * Tenth)

\* C3 (as stated): the payer is credited the amount, each beneficiary is
\* debited amount*share, and the map totals amount*0.8.
C3_TotalIsEightTenths ==
    C3_Case => /\ C3_PayerAndDebits
               /\ SumBalances(balances) = cur.amount[1] * 8 * Tenth

\* C3 (amended): the payer is credited the amount, each beneficiary is
\* debited amount*share, and the map totals amount - amount*1.2, that is
\* -0.2*amount.
C3_TotalIsMinusTwoTenths ==
    C3_Case => /\ C3_PayerAndDebits
               /\ SumBalances(balances) = -(cur.amount[1] * 2 * Tenth)

C3_Witness ==
    /\ C3_Case
    /\ Cardinality(BenUsers(cur.beneficiaries[1])) = 2
    /\ balances[cur.payer_id] = 10 * Scale

\* C8: a record that is not social, or has no payer, a non-positive amount
\* or no beneficiaries leaves the balance map as it was (same keys, same
\* values), and the loop goes on to the next record.
C8_SkipLeavesMapUnchanged ==
    [][BodyStep =>
         (Malformed(cur') => /\ balances' = balances
                             /\ DOMAIN balances' = DOMAIN balances
                             /\ n' = n + 1)]_vars

\* a record skipped for its amount only, after a processed one, with the
\* payer of the skipped record not in the map
C8_Witness ==
    /\ pc = "applied" /\ n = 2
    /\ IsSocial(cur) /\ ~NoPayer(cur) /\ ~NoBeneficiaries(cur)
    /\ NonPositive(cur)
    /\ balances # EmptyBalances
    /\ cur.payer_id \notin DOMAIN balances

\* C9: a processed percentage record whose payer is among its beneficiaries
\* changes the payer's balance by amount - amount*(the payer's share), and
\* every processed record leaves its payer with an entry.
C9_PayerNetOfOwnShare ==
    [][BodyStep =>
         /\ Processed(cur') => cur'.payer_id \in DOMAIN balances'
         /\ (/\ Processed(cur') /\ IsPercentage(cur')
             /\ cur'.payer_id \in BenUsers(cur'.beneficiaries[1]))
            => balances'[cur'.payer_id] =
                   BalGet(balances, cur'.payer_id)
                   + cur'.amount[1] * Scale
                   - cur'.amount[1] * TenthsOf(cur'.beneficiaries[1], cur'.payer_id)
                     * Tenth]_vars

C9_Witness ==
    /\ pc = "applied" /\ n = 2
    /\ Processed(cur) /\ IsPercentage(cur)
    /\ cur.payer_id \in BenUsers(cur.beneficiaries[1])
    /\ TenthsOf(cur.beneficiaries[1], cur.payer_id) = 4
    /\ balances[cur.payer_id] = 16 * Scale

\* --------------------------------------------- properties of the cash flow
\* how many records of txns have direction dir and the amount field amt
CountOf(txns, dir, amt) ==
    Cardinality({i \in DOMAIN txns :
                    txns[i].direction = dir /\ txns[i].amount = amt})
\* the sum of amount over the records with direction dir, by amount value
TotalOf(txns, dir) ==
    (0 - 5) * CountOf(txns, dir, Some(-5)) + 5 * CountOf(txns, dir, Some(5))
    + 20 * CountOf(txns, dir, Some(20))
\* txns in the order p, a permutation of its indices
Reordered(txns, p) == [i \in DOMAIN txns |-> txns[p[i]]]

\* C4: income and expense are the sums of amount over the records of that
\* direction (other directions add to neither, a missing amount adds 0),
\* net is income - expense, every reordering of the input gives the same
\* result, and the empty input gives zeros.
C4_CashFlow ==
    pc = "cash_done" =>
        LET txns == args.txns
            r == result.value
        IN  /\ r.income = TotalOf(txns, "income")
            /\ r.expense = TotalOf(txns, "expense")
            /\ r.net = r.income - r.expense
            /\ \A p \in Permutations(DOMAIN txns) :
                   compute_cash_flow(Reordered(txns, p)) = r
            /\ txns = <<>> => r = [income |-> 0, expense |-> 0, net |-> 0]

C4_Witness ==
    /\ pc = "cash_done"
    /\ Len(args.txns) = 3
    /\ args.txns[1] = [direction |-> "expense", amount |-> Some(20)]
    /\ args.txns[2].direction = "transfer" /\ args.txns[2].amount = Some(5)
    /\ args.txns[3] = [direction |-> "income", amount |-> Missing]
    /\ result.value = [income |-> 0, expense |-> 20, net |-> -20]

\* ----------------------------------------------- properties of the summary
\* the branch a mode value selects, compared without regard to case
BranchOf(m) ==
    IF m \in {"company", "Company"} THEN "company"
    ELSE IF m \in {"social", "SOCIAL"} THEN "social"
    ELSE "home"
\* the response of a branch over the fetched list
ShapeOf(branch, txns) ==
    IF branch = "company"
    THEN [mode |-> "company", cash_flow |-> compute_cash_flow(txns),
          invoices |-> [pending |-> SumPending(txns, 1)]]
    ELSE IF branch = "social"
    THEN [mode |-> "social", balances |-> compute_social_balances(txns)]
    ELSE [mode |-> "home", budget |-> compute_cash_flow(txns)]
\* the mode inferred when the request gives none
InferredMode(txns) == IF txns # <<>> THEN txns[1].type ELSE "home"
ZeroCash == [income |-> 0, expense |-> 0, net |-> 0]

\* C5 (as stated): the branch is that of the supplied mode whenever the
\* request supplies one, else that of the first fetched record's type, else
\* home.
C5_SuppliedModeDecides ==
    pc = "summary_done" =>
        LET eff == IF args.mode # None_ THEN args.mode
                   ELSE InferredMode(args.txns)
        IN  result.value = ShapeOf(BranchOf(eff), args.txns)

\* C5 (amended): the branch is that of the supplied mode when the request
\* supplies a non-empty one; with no mode or an empty mode string it is that
\* of the first fetched record's type, and home when nothing was fetched.
\* No mode and no records give the home shape with zeros.
C5_NonEmptyModeDecides ==
    pc = "summary_done" =>
        LET eff == IF args.mode \notin {None_, ""} THEN args.mode
                   ELSE InferredMode(args.txns)
        IN  /\ result.value = ShapeOf(BranchOf(eff), args.txns)
            /\ (args.mode = None_ /\ args.txns = <<>>)
                   => result.value = [mode |-> "home", budget |-> ZeroCash]

C5_Witness ==
    /\ pc = "summary_done"
    /\ args.mode = ""
    /\ Len(args.txns) = 2
    /\ args.txns[1].type = "social"
    /\ args.txns[2].type = "company"
    /\ result.value.mode = "social"
    /\ result.value.balances = [P |-> 5 * Scale, A |-> (0 - 5) * Scale]

\* ------------------------------------------ properties of the AI endpoints
\* the environment asks for the simulated quota
QuotaOn == args.env \in {"true", "TRUE"}
AiDone == pc \in {"receipt_done", "advisor_done"}
\* something failed in the call: the quota condition or a collaborator
Failed == QuotaOn \/ args.io # NoExc

\* C2: every call of either endpoint ends in a returned response, and when
\* the quota is simulated or a collaborator raises (whatever it raises) the
\* response is the demo result.
C2_AlwaysResponds ==
    AiDone => /\ result.kind = "return"
              /\ Failed => result.value.demo = TRUE

\* C6: the receipt-scan result is decided by the quota flag and the day
\* alone: the quota demo result when the quota is simulated, the fixed
\* non-demo result when it is not and the read succeeds, whatever the file.
C6_FileIndependent ==
    pc = "receipt_done" =>
        /\ QuotaOn =>
               /\ result.kind = "return"
               /\ result.value =
                      [merchant |-> "Demo Store", amount |-> 5000,
                       date |-> args.now, demo |-> TRUE,
                       message |-> "Quota exceeded - using demo data"]
        /\ (~QuotaOn /\ args.io = NoExc) =>
               /\ result.kind = "return"
               /\ result.value =
                      [merchant |-> "Parsed Merchant", amount |-> 4250,
                       date |-> args.now, demo |-> FALSE]

C6_Witness ==
    /\ pc = "receipt_done"
    /\ args.file = "receipt-b"
    /\ args.env = "false"
    /\ args.io = NoExc
    /\ result.value.demo = FALSE

\* the record is in the advisor's window: dated now - 30 days or later, or
\* not dated
InWindow(t) == t.date = Missing \/ t.date[1] >= args.now - 30
WindowCount(dir, amt) ==
    Cardinality({i \in DOMAIN args.txns :
                    /\ InWindow(args.txns[i])
                    /\ args.txns[i].direction = dir
                    /\ args.txns[i].amount = amt})
WindowTotal(dir) == 5 * WindowCount(dir, Some(5)) + 20 * WindowCount(dir, Some(20))
WindowNet == WindowTotal("income") - WindowTotal("expense")

\* C7: without quota and without failure the advisor returns demo false,
\* net30 = the net cash flow of the fetched records dated now - 30 days or
\* later or not dated, and the advice by the sign of that net.
C7_AdvisorWindow ==
    (pc = "advisor_done" /\ ~QuotaOn /\ args.io = NoExc) =>
        /\ result.kind = "return"
        /\ DOMAIN result.value = {"demo", "advice", "net30"}
        /\ result.value.demo = FALSE
        /\ result.value.net30 = WindowNet
        /\ WindowNet >= 0 =>
               result.value.advice =
                   "You're on track. Keep expenses under 80% of income."
        /\ WindowNet < 0 =>
               result.value.advice =
                   "Spending exceeds income. Consider cutting non-essentials."

\* an old income left out, an undated expense counted
C7_Witness ==
    /\ pc = "advisor_done" /\ ~QuotaOn /\ args.io = NoExc
    /\ args.now = 100
    /\ Len(args.txns) = 2
    /\ args.txns[1] = [direction |-> "income", amount |-> Some(20), date |-> Some(69)]
    /\ args.txns[2] = [direction |-> "expense", amount |-> Some(5), date |-> Missing]
    /\ result.value.net30 = -5
    /\ result.value.advice = CutBack

\* C10: under simulated quota neither endpoint calls its collaborator (no
\* file read, no storage fetch), and the outcome is the quota demo result
\* even when that call would have raised.
C10_QuotaBeforeIO ==
    (AiDone /\ QuotaOn) =>
        /\ result.io = <<>>
        /\ result.kind = "return"
        /\ result.value.demo = TRUE
        /\ pc = "receipt_done" =>
               result.value.message = "Quota exceeded - using demo data"
        /\ pc = "advisor_done" =>
               result.value =
                   [demo |-> TRUE,
                    advice |-> "Limit Reached: Try to save 20% of your income this month."]

C10_Witness ==
    /\ pc = "advisor_done"
    /\ args.env = "TRUE"
    /\ args.io.exc = "BaseException"
    /\ result.io = <<>>
    /\ result.value.demo = TRUE

====
